---- MODULE Spec2Model ----
(***************************************************************************)
(* Price-Tracker-Bot (src/price_tracker_bot.py): the products table, the   *)
(* registrar handle_link and the hourly job check_all_prices.              *)
(*                                                                         *)
(* Prices are the floats returned by check_price, modelled as integers.    *)
(* The collaborators (HTTP fetch, Telegram send, SQLite I/O) succeed or    *)
(* fail nondeterministically; their results are the inputs of the actions. *)
(***************************************************************************)
EXTENDS Integers, Sequences, FiniteSets, TLC

\* ------------------------------------------------------------------ bounds
MaxItems == 2
MaxTime == 1

\* ------------------------------------------------------------- input sets
URLs == {"u1", "u2"}
\* the text messages received: (from_user.id, text)
Links == {<<7, "u1">>, <<8, "u2">>}
\* the prices each product page can show
PricesOf(url) == IF url = "u1" THEN {80, 90, 95, 100} ELSE {90, 100}
Prices == UNION {PricesOf(url) : url \in URLs}
\* the values datetime.now() can take
Times == 0..MaxTime

\* check_price and get_product_name return None on every failure
None == -1
NoName == "<None>"

\* the text of span#productTitle for a product page
TitleOf(url) == IF url = "u1" THEN "Widget" ELSE "Gadget"

VARIABLES
    db,         \* table products: rows in id order (AUTOINCREMENT, never deleted)
    site,       \* what a fetch of each product page yields now: a price or None
    pc,         \* check_all_prices: "init" (never ran), "running", "done",
                \* "aborted" (except branch after the read), "readfail"
    products,   \* check_all_prices: the rows fetched by the SELECT
    idx,        \* check_all_prices: position of the for loop in products
    sent,       \* history: send_message calls of the current/last run
    seen,       \* history: check_price results of the current/last run, per position
    db0,        \* history: the table when the current/last run started
    lastReq,    \* history: the last handle_link request and its replies
    stable,     \* history: a run that read the table came before this one and
                \* no page changed since that run started
    prevNone,   \* history: ids whose lookup failed in the run before this one
    changed,    \* history: some page changed since the current/last run started
    failedDrop, \* history: ids whose send_message failed, page unchanged since
    scen,       \* history: progress of row 1 through the observations 90, 95, 80
    note1,      \* history: (old, new) of the send_message calls for row 1 while scen runs
    regs,       \* history: number of requests whose lookups and INSERT succeeded
    lastNew,    \* history: the last row registered, as supplied, and the row the
                \* first SELECT after it returned for it; during: it was
                \* registered while a run was under way and the run that
                \* first lists it has not been followed by another
    alerted,    \* history: ids with a delivered notification whose UPDATE failed,
                \* their last_price unchanged since
    told,       \* history: (id, old price) of the last notification delivered
                \* for each id
    stamp,      \* history: the datetime.now() of the last UPDATE executed
    watch       \* which of the cross-run histories is recorded: "none", "request",
                \* "runs", "scenario", "new", "writes" or "stamps" (fixed by Init)

vars == <<db, site, pc, products, idx, sent, seen, db0, lastReq,
          stable, prevNone, changed, failedDrop, scen, note1,
          regs, lastNew, alerted, told, stamp, watch>>

\* ------------------------------------------------------- scraping functions
\* get_product_name: the stripped title, or None (no tag, or any exception)
NameResults(url) == {NoName, "", TitleOf(url)}

\* check_price: float(price text) of the page, or None (no tag, bad text, exception)
check_price(url) == site[url]

\* ------------------------------------------------------------- handle_link
\* `if product_name:` -- None and the empty string are both falsy
NameOk(product_name) == product_name # NoName /\ product_name # ""

\* faulty variant of PriceOk: the `is not None` test is missing
PriceOkAlways(current_price) == TRUE

\* `if current_price is not None:`
PriceOk(current_price) == current_price # None

\* faulty variant of InsertRow: one row per (user_id, product_url)
InsertRowUnique(d, user_id, product_url, product_name, current_price, t) ==
    IF \E i \in 1..Len(d) : d[i].user_id = user_id /\ d[i].product_url = product_url
    THEN d
    ELSE Append(d, [id |-> Len(d) + 1, user_id |-> user_id,
                    product_url |-> product_url, product_name |-> product_name,
                    last_price |-> current_price, last_checked |-> t])

\* INSERT INTO products (...) VALUES (?, ?, ?, ?, ?) ; commit
InsertRow(d, user_id, product_url, product_name, current_price, t) ==
    Append(d, [id |-> Len(d) + 1, user_id |-> user_id, product_url |-> product_url,
               product_name |-> product_name, last_price |-> current_price,
               last_checked |-> t])

\* no row of a SELECT
NoRow == [id |-> 0, user_id |-> 0, product_url |-> "", product_name |-> NoName,
          last_price |-> None]

Reply(kind, name, price, delivered) ==
    [kind |-> kind, name |-> name, price |-> price, delivered |-> delivered]

\* the reply_text calls of one request, given whether the INSERT and each call
\* succeed: the success reply sits inside the try block, so when it raises the
\* except branch sends the error reply as well
RepliesOf(product_name, current_price, insertOk, replyOk, reply2Ok) ==
    IF ~NameOk(product_name) THEN <<Reply("name_failed", NoName, None, replyOk)>>
    ELSE IF ~PriceOk(current_price) THEN <<Reply("price_failed", NoName, None, replyOk)>>
    ELSE IF ~insertOk THEN <<Reply("could_not_add", NoName, None, replyOk)>>
    ELSE IF replyOk THEN <<Reply("added", product_name, current_price, TRUE)>>
    ELSE <<Reply("added", product_name, current_price, FALSE),
           Reply("could_not_add", NoName, None, reply2Ok)>>

\* the table after the request
Registered(d, user_id, product_url, product_name, current_price, insertOk, t) ==
    IF NameOk(product_name) /\ PriceOk(current_price) /\ insertOk
    THEN InsertRow(d, user_id, product_url, product_name, current_price, t)
    ELSE d

handle_link(user_id, product_url, product_name, insertOk, replyOk, reply2Ok, t) ==
    LET current_price == IF NameOk(product_name) THEN check_price(product_url) ELSE None
    IN  /\ Len(db) < MaxItems
        /\ db' = Registered(db, user_id, product_url, product_name, current_price,
                            insertOk, t)
        /\ lastReq' = IF watch = "request"
                      THEN [product_name |-> product_name,
                            current_price |-> current_price,
                            persisted |-> db' # db,
                            replies |-> RepliesOf(product_name, current_price,
                                                  insertOk, replyOk, reply2Ok)]
                      ELSE lastReq
        /\ scen' = IF watch = "scenario" /\ db' # db /\ Len(db) = 0
                   THEN (IF current_price = 100 THEN 0 ELSE -1)
                   ELSE scen
        /\ regs' = IF NameOk(product_name) /\ PriceOk(current_price) /\ insertOk
                   THEN regs + 1 ELSE regs
        /\ lastNew' = IF watch = "new" /\ db' # db
                      THEN [id |-> Len(db'), user_id |-> user_id,
                            product_url |-> product_url,
                            product_name |-> product_name,
                            current_price |-> current_price,
                            listed |-> FALSE, first |-> NoRow,
                            during |-> pc = "running"]
                      ELSE lastNew
        /\ UNCHANGED <<site, pc, products, idx, sent, seen, db0, stable, prevNone,
                       changed, failedDrop, note1, alerted, told, stamp, watch>>

\* --------------------------------------------------------- check_all_prices
\* faulty variant of Select: the newest row is not returned
SelectWithoutNewest(d) ==
    [i \in 1..(Len(d) - 1) |->
        [id |-> d[i].id, user_id |-> d[i].user_id, product_url |-> d[i].product_url,
         product_name |-> d[i].product_name, last_price |-> d[i].last_price]]

\* SELECT id, user_id, product_url, product_name, last_price FROM products
Select(d) == [i \in 1..Len(d) |->
                 [id |-> d[i].id, user_id |-> d[i].user_id,
                  product_url |-> d[i].product_url,
                  product_name |-> d[i].product_name,
                  last_price |-> d[i].last_price]]

\* faulty variant of IsDrop: <= instead of <
IsDropOrEqual(current_price, last_price) ==
    current_price # None /\ current_price <= last_price

\* faulty variant of IsDrop: the `is not None` test is missing
IsDropNoNoneCheck(current_price, last_price) ==
    current_price < last_price

\* `if current_price is not None and current_price < last_price:`
IsDrop(current_price, last_price) ==
    current_price # None /\ current_price < last_price

\* the message text: name, old price, new price, url
Message(name, last_price, current_price, url) ==
    <<name, last_price, current_price, url>>

\* context.bot.send_message(chat_id=user_id, text=message)
Notification(prod_id, user_id, name, last_price, current_price, url, notifyOk) ==
    [chat_id |-> user_id, text |-> Message(name, last_price, current_price, url),
     delivered |-> notifyOk, id |-> prod_id]

\* faulty variant of UpdateRow: the WHERE clause is missing
UpdateRowNoWhere(d, prod_id, current_price, t) ==
    [i \in 1..Len(d) |-> [d[i] EXCEPT !.last_price = current_price, !.last_checked = t]]

\* faulty variant of UpdateRow: last_checked is not written
UpdateRowPriceOnly(d, prod_id, current_price, t) ==
    [i \in 1..Len(d) |->
        IF d[i].id = prod_id THEN [d[i] EXCEPT !.last_price = current_price] ELSE d[i]]

\* UPDATE products SET last_price = ?, last_checked = ? WHERE id = ? ; commit
UpdateRow(d, prod_id, current_price, t) ==
    [i \in 1..Len(d) |->
        IF d[i].id = prod_id
        THEN [d[i] EXCEPT !.last_price = current_price, !.last_checked = t]
        ELSE d[i]]

\* faulty variant of Raises: a failure of send_message is swallowed
RaisesOnUpdateOnly(notifyOk, updateOk) == ~updateOk

\* send_message or the UPDATE raised: control leaves the for loop for the
\* function's only except branch
Raises(notifyOk, updateOk) == ~notifyOk \/ ~updateOk

\* faulty variant of ExceptBranch: no except clause, the exception leaves the job
ExceptMissing(where) == "escaped"

\* `except Exception as e: logger.error(...)`: the function returns normally;
\* pc records where the exception came from
ExceptBranch(where) == where

\* the scenario monitor for row 1: the next expected observation
Script == <<90, 95, 80>>
ScenStep(s, prod_id, cur) ==
    IF prod_id # 1 \/ s < 0 \/ s >= Len(Script) THEN s
    ELSE IF cur = Script[s + 1] THEN s + 1
    ELSE -1

\* the job starts: connect and SELECT (readOk: neither raised)
CycleStart(readOk) ==
    /\ pc # "running"
    /\ pc' = IF readOk THEN "running" ELSE ExceptBranch("readfail")
    /\ products' = IF readOk THEN Select(db) ELSE <<>>
    /\ idx' = 1
    /\ sent' = <<>>
    /\ seen' = <<>>
    /\ db0' = db
    /\ IF watch = "runs"
       THEN /\ stable' = (pc \in {"done", "aborted"} /\ ~changed)
            /\ prevNone' = {k \in 1..Len(seen) : seen[k] = None}
            /\ changed' = FALSE
       ELSE UNCHANGED <<stable, prevNone, changed>>
    /\ lastNew' = IF watch = "new" /\ readOk /\ lastNew.id # 0 /\ ~lastNew.listed
                  THEN [lastNew EXCEPT !.listed = TRUE,
                                       !.first = IF lastNew.id <= Len(products')
                                                 THEN products'[lastNew.id]
                                                 ELSE NoRow]
                  ELSE IF watch = "new" /\ lastNew.listed
                  THEN [lastNew EXCEPT !.during = FALSE]
                  ELSE lastNew
    /\ UNCHANGED <<db, site, lastReq, failedDrop, scen, note1, regs, alerted,
                   told, stamp, watch>>

\* one iteration of the for loop
CycleItem(notifyOk, updateOk, t) ==
    /\ pc = "running"
    /\ idx <= Len(products)
    /\ LET product == products[idx]
           prod_id == product.id
           user_id == product.user_id
           url == product.product_url
           name == product.product_name
           last_price == product.last_price
           current_price == check_price(url)
           recording == prod_id = 1 /\ scen >= 0 /\ scen < Len(Script)
       IN  /\ seen' = Append(seen, current_price)
           /\ scen' = IF watch = "scenario"
                      THEN ScenStep(scen, prod_id, current_price) ELSE scen
           /\ IF IsDrop(current_price, last_price)
              THEN /\ sent' = Append(sent, Notification(prod_id, user_id, name,
                                        last_price, current_price, url, notifyOk))
                   /\ note1' = IF watch = "scenario" /\ recording
                               THEN Append(note1, <<last_price, current_price>>)
                               ELSE note1
                   /\ failedDrop' = IF watch # "runs" THEN failedDrop
                                    ELSE IF notifyOk THEN failedDrop \ {prod_id}
                                    ELSE failedDrop \cup {prod_id}
                   /\ told' = IF watch = "writes" /\ notifyOk
                              THEN {x \in told : x[1] # prod_id}
                                       \cup {<<prod_id, last_price>>}
                              ELSE told
                   /\ alerted' = IF watch # "writes" \/ ~notifyOk THEN alerted
                                 ELSE IF updateOk THEN alerted \ {prod_id}
                                 ELSE alerted \cup {prod_id}
                   /\ IF Raises(notifyOk, updateOk)
                      THEN /\ pc' = ExceptBranch("aborted")
                           /\ UNCHANGED <<db, idx, stamp>>
                      ELSE /\ db' = UpdateRow(db, prod_id, current_price, t)
                           /\ stamp' = IF watch = "stamps" THEN t ELSE stamp
                           /\ idx' = idx + 1
                           /\ pc' = pc
              ELSE /\ idx' = idx + 1
                   /\ UNCHANGED <<sent, note1, failedDrop, db, pc, alerted, told, stamp>>
    /\ UNCHANGED <<site, products, db0, lastReq, stable, prevNone, changed,
                   regs, lastNew, watch>>

\* the loop is over: conn.close() and return
CycleFinish ==
    /\ pc = "running"
    /\ idx > Len(products)
    /\ pc' = "done"
    /\ UNCHANGED <<db, site, products, idx, sent, seen, db0, lastReq,
                   stable, prevNone, changed, failedDrop, scen, note1,
                   regs, lastNew, alerted, told, stamp, watch>>

\* ------------------------------------------------------------- environment
\* a product page changes: another price, or the price becomes unavailable
PageChange(url, v) ==
    /\ v # site[url]
    /\ site' = [site EXCEPT ![url] = v]
    /\ IF watch = "runs"
       THEN /\ changed' = TRUE
            /\ stable' = FALSE
            /\ failedDrop' = {i \in failedDrop : db[i].product_url # url}
       ELSE UNCHANGED <<changed, stable, failedDrop>>
    /\ UNCHANGED <<db, pc, products, idx, sent, seen, db0, lastReq, prevNone,
                   scen, note1, regs, lastNew, alerted, told, stamp, watch>>

\* ---------------------------------------------------------- specification
NoReq == [product_name |-> NoName, current_price |-> None, persisted |-> FALSE,
          replies |-> <<>>]

NoNew == [id |-> 0, user_id |-> 0, product_url |-> "", product_name |-> NoName,
          current_price |-> None, listed |-> FALSE, first |-> NoRow,
          during |-> FALSE]

\* init_db: CREATE TABLE IF NOT EXISTS -- an empty table on first start
InitW(w) ==
    /\ db = <<>>
    /\ site \in {f \in [URLs -> Prices \cup {None}] :
                     \A url \in URLs : f[url] \in PricesOf(url) \cup {None}}
    /\ pc = "init"
    /\ products = <<>>
    /\ idx = 1
    /\ sent = <<>>
    /\ seen = <<>>
    /\ db0 = <<>>
    /\ lastReq = NoReq
    /\ stable = FALSE
    /\ prevNone = {}
    /\ changed = FALSE
    /\ failedDrop = {}
    /\ scen = -1
    /\ note1 = <<>>
    /\ regs = 0
    /\ lastNew = NoNew
    /\ alerted = {}
    /\ told = {}
    /\ stamp = None
    /\ watch = w

Init == InitW("none")

Next ==
    \/ \E m \in Links, b1, b2, b3 \in BOOLEAN, t \in Times :
         \E n \in NameResults(m[2]) : handle_link(m[1], m[2], n, b1, b2, b3, t)
    \/ \E readOk \in BOOLEAN : CycleStart(readOk)
    \/ \E notifyOk, updateOk \in BOOLEAN, t \in Times : CycleItem(notifyOk, updateOk, t)
    \/ CycleFinish
    \/ \E url \in URLs : \E v \in PricesOf(url) \cup {None} : PageChange(url, v)

\* the table, the job and the histories of one run
Spec == Init /\ [][Next]_vars

\* the same, recording each registration request and its replies
SpecReq == InitW("request") /\ [][Next]_vars

\* the same, recording what carries over from one run to the next
SpecRuns == InitW("runs") /\ [][Next]_vars

\* the same, recording row 1 against the observations 90, 95, 80
SpecScen == InitW("scenario") /\ [][Next]_vars

\* the same, recording the last registered row up to the first SELECT after it
SpecNew == InitW("new") /\ [][Next]_vars

\* the same, recording the last delivery per row and the deliveries whose
\* UPDATE failed
SpecWrites == InitW("writes") /\ [][Next]_vars

\* the same, recording the time of the last UPDATE
SpecStamps == InitW("stamps") /\ [][Next]_vars

\* Spec with the scheduling the program has: every call of the loop body
\* returns or raises (the fetch has timeout=10), the loop ends, and the
\* interval job is started again every hour
SpecLive ==
    /\ Init /\ [][Next]_vars
    /\ WF_vars(\E notifyOk, updateOk \in BOOLEAN, t \in Times :
                  CycleItem(notifyOk, updateOk, t))
    /\ WF_vars(CycleFinish)
    /\ WF_vars(\E readOk \in BOOLEAN : CycleStart(readOk))

\* ------------------------------------------------------------------ claims
\* positions of the snapshot looked up in the current/last run; row k of the
\* table has id k, so position, id and table index coincide
Processed == 1..Len(seen)
SentFor(i) == {j \in 1..Len(sent) : sent[j].id = i}
RunOver == pc \in {"done", "aborted"}

\* C1: once a run is over, every item whose lookup returned a price strictly
\* below the last_price stored before the run has exactly one notification,
\* to its subscriber, carrying (display_name, old price, new price,
\* product_ref), and its stored last_price is the new price.
C1_DropNotifiedAndStored ==
    RunOver =>
      \A k \in Processed :
        (seen[k] # None /\ seen[k] < db0[k].last_price) =>
          /\ Cardinality(SentFor(k)) = 1
          /\ \A j \in SentFor(k) :
               /\ sent[j].chat_id = db0[k].user_id
               /\ sent[j].text = <<db0[k].product_name, db0[k].last_price,
                                   seen[k], db0[k].product_url>>
          /\ db[k].last_price = seen[k]

\* C2: an item whose lookup returned a price greater than or equal to its
\* stored last_price gets no notification in that run, and its last_price and
\* last_checked stay what they were when the run started.
C2_NoDropNoEffect ==
    \A k \in Processed :
      (seen[k] # None /\ seen[k] >= db0[k].last_price) =>
        /\ SentFor(k) = {}
        /\ db[k].last_price = db0[k].last_price
        /\ db[k].last_checked = db0[k].last_checked

\* a finished run in which one item's price rose while another item was updated
C2_Witness ==
    /\ pc = "done"
    /\ \E k \in Processed : seen[k] # None /\ seen[k] > db0[k].last_price
    /\ \E j \in Processed : db[j] # db0[j]

\* C3: a send_message or UPDATE failure on one item does not abort the run:
\* once the run is over every item of the snapshot has been looked up.
C3_FailureDoesNotAbort ==
    RunOver => Len(seen) = Len(products)

C5_SecondRunSilent ==
    stable => sent = <<>>

\* C6: no step raises a stored last_price; a step that changes it is the
\* job's iteration on that row and stores a strictly lower value; no row is
\* ever removed.
C6_PriceOnlyDecreases ==
    [][\A i \in 1..Len(db) :
         /\ i <= Len(db')
         /\ db'[i].last_price <= db[i].last_price
         /\ db'[i].last_price # db[i].last_price =>
              (pc = "running" /\ idx = i /\ db'[i].last_price < db[i].last_price)]_vars

\* a row whose last_price the current/last run lowered
C6_Witness ==
    \E i \in 1..Len(db0) : db[i].last_price < db0[i].last_price

\* C7: an item is compared against its stored last_price only: a notification
\* is sent exactly for an observation strictly below it, an observation at or
\* above it changes nothing; and row 1 created at 100 and observed at 90, 95,
\* 80 by successive runs has last_price 90 after the second observation and
\* exactly the notifications (100 -> 90) and (90 -> 80).
C7_ComparedAgainstStoredFloor ==
    /\ \A k \in Processed :
         /\ (SentFor(k) # {}) <=> (seen[k] # None /\ seen[k] < db0[k].last_price)
         /\ (seen[k] # None /\ seen[k] >= db0[k].last_price) => db[k] = db0[k]
    /\ scen >= 1 => note1[1] = <<100, 90>>
    /\ scen = 2 => (db[1].last_price = 90 /\ Len(note1) = 1)
    /\ scen = 3 => note1 = << <<100, 90>>, <<90, 80>> >>

\* C8: the registrar writes a row only when the name lookup and the price
\* lookup both succeeded, so every stored row has a display name and a price.
C8_ItemsHaveNameAndPrice ==
    /\ \A i \in 1..Len(db) :
         /\ db[i].product_name \notin {NoName, ""}
         /\ db[i].last_price # None
    /\ lastReq.persisted =>
         /\ lastReq.product_name \notin {NoName, ""}
         /\ lastReq.current_price # None

\* a request whose name lookup succeeded and whose price lookup failed, made
\* when a row already existed, wrote nothing
C8_Witness ==
    /\ Len(db) >= 1
    /\ lastReq.replies # <<>>
    /\ lastReq.product_name \notin {NoName, ""}
    /\ lastReq.current_price = None
    /\ ~lastReq.persisted

\* C9: the replies of a request tell what happened: the success reply, with
\* the name and price, is sent iff a row was persisted; the name-failure reply
\* when the name lookup failed; the price-failure reply when only the price
\* lookup failed; a "could not add" reply only when nothing was persisted.
C9_ReplyMatchesOutcome ==
    LET kinds == {lastReq.replies[k].kind : k \in DOMAIN lastReq.replies}
        nameOk == lastReq.product_name \notin {NoName, ""}
    IN  lastReq.replies # <<>> =>
          /\ ("added" \in kinds) <=> lastReq.persisted
          /\ \A k \in DOMAIN lastReq.replies :
               lastReq.replies[k].kind = "added" =>
                 /\ lastReq.replies[k].name = lastReq.product_name
                 /\ lastReq.replies[k].price = lastReq.current_price
          /\ ~nameOk => kinds = {"name_failed"}
          /\ (nameOk /\ lastReq.current_price = None) => kinds = {"price_failed"}
          /\ ("could_not_add" \in kinds) => ~lastReq.persisted

\* C10: after send_message failed for an item, no run sends a notification
\* for that item again while its page stays as it was.
C10_FailedNotifyNeverRetried ==
    [][Len(sent') > Len(sent) => sent'[Len(sent')].id \notin failedDrop]_vars

\* C11: the table holds one row per successful registration, with ids 1, 2,
\* ... in order of creation and no row of an earlier run missing, also when
\* rows share (user_id, product_url); each row is compared with its own
\* stored price, notified with its own old price and updated on its own.
C11_NoDedupNoDelete ==
    /\ Len(db) = regs
    /\ \A i \in 1..Len(db) : db[i].id = i
    /\ \A i \in 1..Len(db0) : i <= Len(db) /\ db[i].id = db0[i].id
    /\ \A k \in Processed :
         /\ (SentFor(k) # {}) <=> (seen[k] # None /\ seen[k] < db0[k].last_price)
         /\ \A j \in SentFor(k) : sent[j].text[2] = db0[k].last_price
         /\ db[k] # db0[k] => db[k].last_price = seen[k]

\* a finished run over two rows of the same (user_id, product_url): one was
\* notified and lowered, the other was left alone
C11_Witness ==
    /\ pc = "done"
    /\ regs = 2
    /\ \E a, b \in Processed :
         /\ a # b
         /\ db0[a].user_id = db0[b].user_id
         /\ db0[a].product_url = db0[b].product_url
         /\ SentFor(a) # {}
         /\ db[a].last_price = seen[a]
         /\ db[a].last_price < db0[a].last_price
         /\ SentFor(b) = {}
         /\ db[b] = db0[b]

\* C12: a row registered with successful lookups and INSERT holds exactly the
\* user_id, product_url, product_name and price the registrar supplied until
\* the next SELECT of the job, and that SELECT returns it with these values.
C12_CreatedThenListed ==
    lastNew.id # 0 =>
      IF ~lastNew.listed
      THEN /\ lastNew.id <= Len(db)
           /\ db[lastNew.id].id = lastNew.id
           /\ db[lastNew.id].user_id = lastNew.user_id
           /\ db[lastNew.id].product_url = lastNew.product_url
           /\ db[lastNew.id].product_name = lastNew.product_name
           /\ db[lastNew.id].last_price = lastNew.current_price
      ELSE lastNew.first = [id |-> lastNew.id, user_id |-> lastNew.user_id,
                            product_url |-> lastNew.product_url,
                            product_name |-> lastNew.product_name,
                            last_price |-> lastNew.current_price]

\* a run is under way whose SELECT, the first after the second registration,
\* returned the second row as supplied
C12_Witness ==
    /\ lastNew.id = 2
    /\ lastNew.listed
    /\ lastNew.first.last_price = lastNew.current_price
    /\ lastNew.first.product_name = TitleOf(lastNew.product_url)
    /\ pc = "running"
    /\ Len(products) = 2

\* C13: no failure leaves check_all_prices as an exception: pc only takes the
\* values of a run that has not started, is under way or has returned; a run
\* under way always comes to its return (done, or aborted with the failure
\* logged); and the job is started again and again.
C13_CycleReturnsAndRunsAgain ==
    /\ [](pc \in {"init", "running", "done", "aborted", "readfail"})
    /\ (pc = "running") ~> (pc \in {"done", "aborted"})
    /\ []<><<\E readOk \in BOOLEAN : CycleStart(readOk)>>_vars

\* a run over two rows that returned after send_message or the UPDATE raised
\* on the first
C13_Witness ==
    /\ pc = "aborted"
    /\ Len(products) = 2
    /\ Len(seen) = 1
    /\ Len(sent) = 1

\* the notification a step adds to sent, if it adds one
Sends == Len(sent') > Len(sent)
NewSent == sent'[Len(sent')]

\* C14 (as stated): a step lowers a row's last_price from p to q only together
\* with a delivered notification (p -> q) for that row, a failed send_message
\* leaves the table unchanged, and no notification is delivered for an item
\* with the old price that the notification delivered before it for that item
\* carried.
C14_NoLostNoDuplicateAlerts ==
    [][/\ \A i \in 1..Len(db) :
            db'[i].last_price # db[i].last_price =>
              /\ Sends /\ NewSent.delivered /\ NewSent.id = i
              /\ NewSent.text[2] = db[i].last_price
              /\ NewSent.text[3] = db'[i].last_price
       /\ (Sends /\ ~NewSent.delivered) => db' = db
       /\ (Sends /\ NewSent.delivered) =>
            <<NewSent.id, NewSent.text[2]>> \notin told]_vars

\* C14 (amended): the same, except for duplicates: the old prices of the
\* notifications delivered for an item never rise, and a notification repeats
\* the old price of the one delivered before it for that item exactly when
\* the UPDATE after that earlier delivery failed.
C14_DuplicateOnlyAfterFailedUpdate ==
    [][/\ \A i \in 1..Len(db) :
            db'[i].last_price # db[i].last_price =>
              /\ Sends /\ NewSent.delivered /\ NewSent.id = i
              /\ NewSent.text[2] = db[i].last_price
              /\ NewSent.text[3] = db'[i].last_price
       /\ (Sends /\ ~NewSent.delivered) => db' = db
       /\ (Sends /\ NewSent.delivered) =>
            /\ \A x \in told : x[1] = NewSent.id => NewSent.text[2] <= x[2]
            /\ <<NewSent.id, NewSent.text[2]>> \in told <=> NewSent.id \in alerted]_vars

\* a run has lowered row 1 after its delivered notification and is about to
\* look up row 2, whose last delivery, with its present last_price as the old
\* price, was followed by a failed UPDATE, and whose page is still lower
C14_Witness ==
    /\ pc = "running"
    /\ idx = 2
    /\ Len(products) = 2
    /\ Len(sent) = 1
    /\ sent[1].id = 1 /\ sent[1].delivered
    /\ db[1].last_price = sent[1].text[3]
    /\ db[1].last_price < db0[1].last_price
    /\ <<2, db[2].last_price>> \in told
    /\ 2 \in alerted
    /\ site[db[2].product_url] # None
    /\ site[db[2].product_url] < db[2].last_price

\* the row registered while a run was under way, before and after the run
\* that first lists it
Concurrent == lastNew.id # 0 /\ lastNew.during
Pending == Concurrent /\ ~lastNew.listed
Listed == Concurrent /\ lastNew.listed

\* a registration that commits while the loop is running leaves the run's
\* snapshot, position and notifications alone and appends the row as supplied;
\* that run neither notifies nor writes the row
C15_Isolated ==
    /\ (pc = "running" /\ Len(db') > Len(db)) =>
          /\ Pending'
          /\ lastNew'.id = Len(db') /\ lastNew'.id > Len(products)
          /\ \A i \in 1..Len(db) : db'[i] = db[i]
          /\ Select(db')[lastNew'.id] =
                [id |-> lastNew'.id, user_id |-> lastNew'.user_id,
                 product_url |-> lastNew'.product_url,
                 product_name |-> lastNew'.product_name,
                 last_price |-> lastNew'.current_price]
          /\ UNCHANGED <<pc, products, idx, sent, seen>>
    /\ (Pending /\ Pending') =>
          /\ db'[lastNew.id] = db[lastNew.id]
          /\ \A j \in 1..Len(sent') : sent'[j].id # lastNew.id
          /\ lastNew.id \notin 1..Len(seen')

\* the price a run compares with is the price the table holds for the row
C15_ComparesStored ==
    (pc = "running" /\ idx <= Len(products)) =>
       /\ products[idx].id = idx
       /\ products[idx].last_price = db[idx].last_price

\* the run that first lists the row looks it up before it ends
C15_ProcessedNext ==
    (Listed /\ pc = "running" /\ pc' # "running") => lastNew.id \in 1..Len(seen')

\* C15: a registration that interleaves with a running job: the job works on
\* the rows of its SELECT, the new row is stored as supplied and is neither
\* notified nor written by that run, the next run looks it up, and the
\* last_price a run compares with is the one the table holds.
C15_RegistrationDuringCycle ==
    [][C15_Isolated /\ C15_ComparesStored /\ C15_ProcessedNext]_vars

\* a step of check_all_prices: the job starts, looks up one row, or returns
CycleStep == pc' # pc \/ seen' # seen \/ products' # products \/ db0' # db0

\* C16: check_all_prices never inserts or deletes a row and never changes a
\* row's id, user_id, product_url or product_name; each UPDATE it executes
\* writes last_price and last_checked of the one row with the id of the
\* product being processed, both in the same statement, and leaves every other
\* row as it was.
C16_CycleFrame ==
    [][/\ CycleStep => Len(db') = Len(db)
       /\ Len(db') >= Len(db)
       /\ \A i \in 1..Len(db) :
            /\ db'[i].id = db[i].id
            /\ db'[i].user_id = db[i].user_id
            /\ db'[i].product_url = db[i].product_url
            /\ db'[i].product_name = db[i].product_name
            /\ db'[i] # db[i] =>
                 /\ pc = "running" /\ idx <= Len(products)
                 /\ db[i].id = products[idx].id
                 /\ seen' = Append(seen, db'[i].last_price)
                 /\ db'[i].last_price # db[i].last_price
                 /\ db'[i].last_checked = stamp'
                 /\ \A j \in 1..Len(db) : j # i => db'[j] = db[j]]_vars

\* a run has just written row 1: a lower last_price and another last_checked,
\* the one of the UPDATE, while row 2 and row 1's other columns are as the run
\* found them
C16_Witness ==
    /\ pc = "running"
    /\ idx = 2
    /\ Len(db) = 2 /\ Len(db0) = 2
    /\ db[1].last_price < db0[1].last_price
    /\ db[1].last_price = seen[1]
    /\ db[1].last_checked = stamp
    /\ db[1].last_checked # db0[1].last_checked
    /\ [db[1] EXCEPT !.last_price = 0, !.last_checked = 0] =
         [db0[1] EXCEPT !.last_price = 0, !.last_checked = 0]
    /\ db[2] = db0[2]

====
